---- MODULE Spec2Model ----
(***************************************************************************)
(* State-machine model of src/textEditor.py (class TextEditor).            *)
(*                                                                         *)
(* The document state is the text widget's content and modified flag, the  *)
(* editor's filepath, the window title and the files on disk; the theme    *)
(* state is dark_mode and the colours configured on the two widgets.       *)
(* Every handler runs to completion on the UI thread, so each handler is   *)
(* one action; the answers of the modal dialogs it opens and the outcome   *)
(* of its file I/O are the action's inputs.  The variable ev records which *)
(* dialogs the last handler showed and what its I/O did.                   *)
(*                                                                         *)
(* The status bar and the line-number gutter are write-only displays that  *)
(* no handler reads back; they are not part of the model.                  *)
(***************************************************************************)
EXTENDS Naturals, Sequences, FiniteSets

VARIABLES
    filepath,    \* self.filepath: a path, or None
    dark_mode,   \* self.dark_mode
    text,        \* content of self.text, without the widget's final newline
    modified,    \* self.text.edit_modified()
    title,       \* the window title
    text_bg,     \* self.text bg
    text_fg,     \* self.text fg (and insertbackground, linenumbers fg)
    ln_bg,       \* self.linenumbers background
    files,       \* the filesystem: path -> content
    lastSaved,   \* the last successful write: its path and the buffer it saved
    ev           \* what the last handler did (dialogs shown, I/O outcome)

vars == <<filepath, dark_mode, text, modified, title, text_bg, text_fg, ln_bg,
          files, lastSaved, ev>>

---------------------------------------------------------------------------
(* Bounds *)

MaxLen == 2      \* longest buffer content
MaxTerm == 1     \* longest search or replacement term

---------------------------------------------------------------------------
(* Values *)

NL == "\n"
Chars == {"a", NL}

\* None, and the empty string a cancelled file chooser returns: both falsy
None == <<>>

PathA == <<"/", "a">>
PathB == <<"/", "d", "/", "b">>
Paths == {PathA, PathB}

SeqsUpTo(n) == UNION {[1..k -> Chars] : k \in 0..n}

AppName == "Cool Text Editor"

\* os.path.basename: what follows the last "/"
RECURSIVE basename(_)
basename(p) ==
    IF \E i \in 1..Len(p) : p[i] = "/"
    THEN basename(Tail(p))
    ELSE p

\* str.replace(find, repl) for a non-empty find: leftmost, non-overlapping
RECURSIVE str_replace(_, _, _)
str_replace(s, find, repl) ==
    IF Len(s) < Len(find) THEN s
    ELSE IF SubSeq(s, 1, Len(find)) = find
         THEN repl \o str_replace(SubSeq(s, Len(find) + 1, Len(s)), find, repl)
         ELSE <<Head(s)>> \o str_replace(Tail(s), find, repl)

\* self.text.get(1.0, tk.END): the content and the widget's final newline
text_get(t) == t \o <<NL>>

NoLog == [op |-> "init", confirm |-> "none", saveDlg |-> "none",
          openDlg |-> "none", wrote |-> None, saveErr |-> FALSE,
          loaded |-> None, readErr |-> FALSE,
          find |-> <<>>, repl |-> <<>>, before |-> <<>>]

---------------------------------------------------------------------------
(* Handlers, as functions of the editor state s and the handler's inputs.  *)
(* s is a record of the document variables with the log of the handler     *)
(* so far.                                                                 *)

Cur == [filepath |-> filepath, text |-> text, modified |-> modified,
        title |-> title, files |-> files, lastSaved |-> lastSaved,
        log |-> NoLog]

\* _update_title
update_title(s) ==
    LET name == IF s.filepath # None THEN basename(s.filepath)
                ELSE <<"Untitled">>
    IN [s EXCEPT !.title = name \o <<" - ", AppName>>,
                 !.modified = FALSE]

\* _write_to_file; w is the outcome of the I/O: "ok", "open_fails" (open()
\* raises, the file is untouched) or "write_fails" (open() has truncated
\* the file and the write raises)
write_to_file(s, path, w) ==
    IF w = "ok"
    THEN [s EXCEPT !.files[path] = text_get(s.text),
                   !.lastSaved = [path |-> path, content |-> s.text],
                   !.log.wrote = path]
    ELSE [s EXCEPT !.files[path] = IF w = "write_fails" THEN <<>> ELSE @,
                   !.lastSaved = IF w = "write_fails" /\ @.path = path
                                 THEN [path |-> None, content |-> <<>>]
                                 ELSE @,
                   !.log.saveErr = TRUE]

\* save_as; pick is the chooser's answer (None when cancelled)
save_as(s, pick, w) ==
    IF pick # None
    THEN update_title(
             write_to_file([s EXCEPT !.filepath = pick,
                                     !.log.saveDlg = "picked"], pick, w))
    ELSE [s EXCEPT !.log.saveDlg = "cancelled"]

\* variant of save_file that ignores a known path
save_file_AlwaysAsks(s, pick, w) == save_as(s, pick, w)

\* save_file
save_file(s, pick, w) ==
    IF s.filepath # None
    THEN write_to_file(s, s.filepath, w)
    ELSE save_as(s, pick, w)

\* variant of _confirm_discard that treats Cancel as No
confirm_discard_CancelProceeds(s, choice, pick, w) ==
    IF s.modified
    THEN LET s1 == [s EXCEPT !.log.confirm = choice]
         IN IF choice = "yes"
            THEN [ok |-> TRUE, st |-> save_file(s1, pick, w)]
            ELSE [ok |-> TRUE, st |-> s1]
    ELSE [ok |-> TRUE, st |-> s]

\* _confirm_discard; choice is the answer to askyesnocancel
confirm_discard(s, choice, pick, w) ==
    IF s.modified
    THEN LET s1 == [s EXCEPT !.log.confirm = choice]
         IN IF choice = "yes"
            THEN [ok |-> TRUE, st |-> save_file(s1, pick, w)]
            ELSE IF choice = "no"
                 THEN [ok |-> TRUE, st |-> s1]
                 ELSE [ok |-> FALSE, st |-> s1]
    ELSE [ok |-> TRUE, st |-> s]

\* new_file
new_file(s, choice, pick, w) ==
    LET c == confirm_discard(s, choice, pick, w)
    IN IF c.ok
       THEN update_title([c.st EXCEPT !.filepath = None, !.text = <<>>])
       ELSE c.st

\* open_file; path is the open chooser's answer, readOk whether open()/read()
\* succeed (when they raise, the handler ends there)
open_file(s, choice, pick, w, path, readOk) ==
    LET c == confirm_discard(s, choice, pick, w)
    IN IF ~c.ok THEN c.st
       ELSE IF path = None THEN [c.st EXCEPT !.log.openDlg = "cancelled"]
       ELSE IF ~readOk THEN [c.st EXCEPT !.log.openDlg = "picked",
                                         !.log.readErr = TRUE]
       ELSE update_title([c.st EXCEPT !.filepath = path,
                                      !.text = c.st.files[path],
                                      !.log.openDlg = "picked",
                                      !.log.loaded = path])

\* find_replace; find is None when the first prompt is cancelled or left
\* empty, replace is None ("" is used) when the second one is cancelled
find_replace(s, find, replace) ==
    IF find # None
    THEN [s EXCEPT !.text = str_replace(text_get(s.text), find, replace),
                   !.modified = TRUE,
                   !.log.find = find, !.log.repl = replace]
    ELSE s

\* variant of _apply_theme whose light branch keeps the dark gutter
apply_theme_GutterStaysDark(dark) ==
    IF dark
    THEN [bg |-> "#2e2e2e", fg |-> "#dcdcdc", ln_bg |-> "#333333"]
    ELSE [bg |-> "white", fg |-> "black", ln_bg |-> "#333333"]

\* _apply_theme: the colours it configures for a value of dark_mode
apply_theme(dark) ==
    IF dark
    THEN [bg |-> "#2e2e2e", fg |-> "#dcdcdc", ln_bg |-> "#333333"]
    ELSE [bg |-> "white", fg |-> "black", ln_bg |-> "lightgrey"]

---------------------------------------------------------------------------
(* The state machine *)

Commit(s, op) ==
    /\ filepath' = s.filepath
    /\ text' = s.text
    /\ modified' = s.modified
    /\ title' = s.title
    /\ files' = s.files
    /\ lastSaved' = s.lastSaved
    /\ ev' = [s.log EXCEPT !.op = op]

ThemeUnchanged == UNCHANGED <<dark_mode, text_bg, text_fg, ln_bg>>

Choices == {"yes", "no", "cancel"}
Picks == Paths \cup {None}
WriteOutcomes == {"ok", "open_fails", "write_fails"}

\* The environment.  PathA is an ordinary file: writing it succeeds or
\* fails.  PathB is a read-only file: open(PathB, 'w') always raises.
\* A dialog that is not shown has no answer ("none", None), and I/O that is
\* not attempted has no outcome ("ok" stands for it).
ConfirmAnswers == IF modified THEN Choices ELSE {"none"}
SavePicks(choice) ==
    IF choice = "yes" /\ filepath = None THEN Picks ELSE {None}
SaveAsOutcomes(pick) ==
    IF pick = None THEN {"ok"}
    ELSE IF pick = PathB THEN {"open_fails"} ELSE WriteOutcomes
SaveOutcomes(choice, pick) ==
    IF choice # "yes" THEN {"ok"}
    ELSE SaveAsOutcomes(IF filepath # None THEN filepath ELSE pick)

\* __init__: title "Cool Text Editor", no path, empty unmodified buffer,
\* then _apply_theme with dark_mode False
Init ==
    /\ filepath = None
    /\ dark_mode = FALSE
    /\ text = <<>>
    /\ modified = FALSE
    /\ title = <<AppName>>
    /\ text_bg = apply_theme(FALSE).bg
    /\ text_fg = apply_theme(FALSE).fg
    /\ ln_bg = apply_theme(FALSE).ln_bg
    /\ files = [p \in Paths |-> IF p = PathB THEN <<"a">> ELSE <<>>]
    /\ lastSaved = [path |-> None, content |-> <<>>]
    /\ ev = NoLog

\* a key press that inserts character c after position i
KeyInsert ==
    /\ Len(text) < MaxLen
    /\ \E i \in 0..Len(text), c \in Chars :
          Commit([Cur EXCEPT !.text = SubSeq(text, 1, i) \o <<c>>
                                        \o SubSeq(text, i + 1, Len(text)),
                             !.modified = TRUE], "key")
    /\ ThemeUnchanged

\* BackSpace/Delete removing the character at position i
KeyDelete ==
    /\ \E i \in 1..Len(text) :
          Commit([Cur EXCEPT !.text = SubSeq(text, 1, i - 1)
                                        \o SubSeq(text, i + 1, Len(text)),
                             !.modified = TRUE], "key")
    /\ ThemeUnchanged

NewFile ==
    /\ \E choice \in ConfirmAnswers :
          \E pick \in SavePicks(choice) :
             \E w \in SaveOutcomes(choice, pick) :
                Commit(new_file(Cur, choice, pick, w), "new")
    /\ ThemeUnchanged

OpenFile ==
    /\ \E choice \in ConfirmAnswers :
          \E pick \in SavePicks(choice) :
             \E w \in SaveOutcomes(choice, pick) :
                \E path \in (IF choice = "cancel" THEN {None} ELSE Picks) :
                   \E readOk \in (IF path = None THEN {TRUE} ELSE BOOLEAN) :
                      LET s == open_file(Cur, choice, pick, w, path, readOk)
                      IN /\ Len(s.text) <= MaxLen
                         /\ Commit(s, "open")
    /\ ThemeUnchanged

SaveFile ==
    /\ \E pick \in SavePicks("yes") :
          \E w \in SaveOutcomes("yes", pick) :
             Commit(save_file(Cur, pick, w), "save")
    /\ ThemeUnchanged

SaveAs ==
    /\ \E pick \in Picks :
          \E w \in SaveAsOutcomes(pick) :
             Commit(save_as(Cur, pick, w), "save_as")
    /\ ThemeUnchanged

FindReplace ==
    /\ \E find \in SeqsUpTo(MaxTerm) :
       \E replace \in (IF find = None THEN {<<>>} ELSE SeqsUpTo(MaxTerm)) :
          LET s == find_replace(Cur, find, replace)
          IN /\ Len(s.text) <= MaxLen
             /\ Commit(s, "find_replace")
    /\ ThemeUnchanged

\* toggle_theme
ToggleTheme ==
    /\ dark_mode' = ~dark_mode
    /\ text_bg' = apply_theme(~dark_mode).bg
    /\ text_fg' = apply_theme(~dark_mode).fg
    /\ ln_bg' = apply_theme(~dark_mode).ln_bg
    /\ ev' = [NoLog EXCEPT !.op = "toggle_theme",
                           !.before = <<text_bg, text_fg, ln_bg>>]
    /\ UNCHANGED <<filepath, text, modified, title, files, lastSaved>>

Next ==
    \/ KeyInsert
    \/ KeyDelete
    \/ NewFile
    \/ OpenFile
    \/ SaveFile
    \/ SaveAs
    \/ FindReplace
    \/ ToggleTheme

Spec == Init /\ [][Next]_vars

---------------------------------------------------------------------------
(* Properties *)

\* "<name> - Cool Text Editor" for a path, "Untitled" standing for no path
TitleFor(path) ==
    (IF path = None THEN <<"Untitled">> ELSE basename(path))
        \o <<" - ", AppName>>

DocumentUnchanged == UNCHANGED <<text, filepath, title, modified>>

\* C1: when the write of a Save or Save As fails, the error dialog is shown
\* and the buffer, the path, the title and the modified flag keep the values
\* they had before the operation.
C1_FailedWriteLeavesDocument ==
    [][ (ev'.op \in {"save", "save_as"} /\ ev'.saveErr) => DocumentUnchanged
      ]_vars

\* C2: the modified flag is cleared exactly on a successful save or a fresh
\* load: a handler that wrote or loaded a file leaves the flag clear, and
\* the flag goes from set to clear only in a handler that wrote a file,
\* loaded one or started a new document.
C2_ModifiedClearedExactlyOnSaveOrLoad ==
    [][ /\ (ev'.wrote # None \/ ev'.loaded # None) => ~modified'
        /\ (modified /\ ~modified') =>
               (ev'.wrote # None \/ ev'.loaded # None \/ ev'.op = "new")
      ]_vars

\* C3: round trip: after opening a path whose file was last written by a
\* save, the buffer holds exactly the content the buffer had at that save.
C3_RoundTrip ==
    (ev.op = "open" /\ ev.loaded # None /\ lastSaved.path = ev.loaded)
        => text = lastSaved.content

\* C4: New and Open on a modified document ask the three-way confirmation;
\* the buffer changes only after an answer other than Cancel, and on Cancel
\* the buffer, path, title, modified flag and files are unchanged and no
\* file chooser is shown.
C4_CancelAborts ==
    [][ (ev'.op \in {"new", "open"} /\ modified) =>
            /\ ev'.confirm \in Choices
            /\ ev'.confirm = "cancel" =>
                   /\ DocumentUnchanged
                   /\ files' = files
                   /\ ev'.openDlg = "none" /\ ev'.saveDlg = "none"
      ]_vars

C4_Witness ==
    /\ ev.op = "open" /\ ev.confirm = "cancel"
    /\ modified /\ text # <<>> /\ filepath # None

\* C5: Find & Replace with a non-empty term leaves a buffer that is exactly
\* the literal replacement of every occurrence in the previous content,
\* nothing else added or removed.
C5_FindReplaceIsReplacement ==
    [][ (ev'.op = "find_replace" /\ ev'.find # None) =>
            text' = str_replace(text, ev'.find, ev'.repl)
      ]_vars

\* C6: the path only ever becomes a path that the handler successfully
\* wrote the document to or loaded it from.
C6_PathNamesWrittenOrLoadedFile ==
    [][ (filepath' # filepath /\ filepath' # None) =>
            (ev'.wrote = filepath' \/ ev'.loaded = filepath')
      ]_vars

\* C7: Save on a document with a path shows no chooser and writes the
\* buffer (as text.get(1.0, END) returns it) to that path and to no other
\* file; Save on a document without a path shows the Save As chooser, and
\* when the chooser is cancelled nothing is written and the path stays null.
C7_SaveUsesPathOrAsks ==
    [][ ev'.op = "save" =>
            IF filepath # None
            THEN /\ ev'.saveDlg = "none"
                 /\ filepath' = filepath
                 /\ ev'.wrote # None \/ ev'.saveErr
                 /\ ev'.wrote # None =>
                        /\ ev'.wrote = filepath
                        /\ files'[filepath] = text \o <<NL>>
                 /\ \A p \in Paths \ {filepath} : files'[p] = files[p]
            ELSE /\ ev'.saveDlg # "none"
                 /\ ev'.saveDlg = "cancelled" =>
                        /\ files' = files
                        /\ filepath' = None
                        /\ ev'.wrote = None /\ ~ev'.saveErr
      ]_vars

C7_Witness ==
    /\ ev.op = "save" /\ ev.saveDlg = "none"
    /\ filepath = PathA /\ ev.wrote = PathA
    /\ text # <<>> /\ files[PathA] = text \o <<NL>>

LightColours == <<"white", "black", "lightgrey">>
DarkColours == <<"#2e2e2e", "#dcdcdc", "#333333">>

\* C8: the displayed colours are always those of the current dark_mode
\* (the light ones initially); only a toggle changes them, and the second
\* of two toggles restores the colours shown before the first.
C8_ThemeToggle ==
    /\ [](<<text_bg, text_fg, ln_bg>> =
              IF dark_mode THEN DarkColours ELSE LightColours)
    /\ [][ IF ev'.op = "toggle_theme"
           THEN ev.op = "toggle_theme" =>
                    <<text_bg', text_fg', ln_bg'>> = ev.before
           ELSE UNCHANGED <<text_bg, text_fg, ln_bg>>
         ]_vars

C8_Witness ==
    /\ ev.op = "toggle_theme" /\ ev.before = DarkColours
    /\ ~dark_mode /\ <<text_bg, text_fg, ln_bg>> = LightColours

\* C9: in every state, the initial one included, the title is
\* "<name> - Cool Text Editor", <name> being the base name of the path or
\* "Untitled".
C9_TitleNamesFile == title = TitleFor(filepath)

\* C10: New or Open changes a modified buffer only if the answer was
\* Discard or the handler wrote the buffer to a file.
C10_NoLossOfUnsavedContent ==
    [][ (ev'.op \in {"new", "open"} /\ modified /\ text' # text) =>
            (ev'.confirm = "no" \/ ev'.wrote # None)
      ]_vars

====
